---- MODULE Spec2Model ----
(***************************************************************************)
(* Model of pipeline_backup.py: the spec-file parser (PipelineSpec), the   *)
(* locator path resolver (Backup._determine_local_path) and the mirroring  *)
(* engine (Backup.run / Backup._download).                                 *)
(*                                                                         *)
(* A Python str is a sequence of one-character strings, so that indices,   *)
(* slices, split, strip and replace are computed as the code computes      *)
(* them.  Paths follow posixpath (os.path on the platforms the tool runs   *)
(* on).  The file system is keyed by normalised path: there are no         *)
(* symbolic links, and relative paths are relative to one fixed working    *)
(* directory.                                                              *)
(***************************************************************************)
EXTENDS Integers, Sequences, FiniteSets, TLC

VARIABLES
    pc,           \* position of the program: "main" or "caller", "run", "done", "raised"; or of a pure function
    info,         \* __main__: the locator lines gathered from the spec files
    dest_arg,     \* the destination as given by the caller (args.backup)
    data,         \* Backup.data
    destination,  \* Backup.destination
    verbose,      \* Backup.verbose: "unset" until a caller assigns it
    idx,          \* number of locators of Backup.data that run() has passed to _download
    stats,        \* Backup.stats
    dirs,         \* file system: the directories that exist
    files,        \* file system: regular files, path -> content
    opened,       \* the locators urlopen() was called with, in call order
    last,         \* the locals of the latest _download call and the way it ended
    runno,        \* "first" or "second" Backup.run over the same list and destination
    stats1,       \* Backup.stats at the end of the first run
    files1,       \* the regular files at the end of the first run
    files0,       \* the regular files when the program started
    arg,          \* input of the pure function being applied
    res           \* its result

vars == <<pc, info, dest_arg, data, destination, verbose, idx, stats, dirs,
          files, opened, last, runno, stats1, files1, files0, arg, res>>

engineVars == <<info, dest_arg, data, destination, verbose, idx, stats, dirs,
                files, opened, last, runno, stats1, files1, files0>>

----------------------------------------------------------------------------
(* Bounds *)

MaxLocLen == 6      \* longest enumerated locator given to the resolver

----------------------------------------------------------------------------
(* Python str and posixpath primitives *)

None == <<"None">>

SLASH == "/"

\* s.startswith(p)
startswith(s, p) == Len(p) <= Len(s) /\ SubSeq(s, 1, Len(p)) = p

\* s.endswith(p)
endswith(s, p) == Len(p) <= Len(s) /\ SubSeq(s, Len(s) - Len(p) + 1, Len(s)) = p

\* s[b:e] with 0 <= b, e <= len(s)
slice(s, b, e) == SubSeq(s, b + 1, e)

\* the zero-based indices of every '/' of record, in order
markers_of(record) ==
    SelectSeq([i \in 1..Len(record) |-> i - 1], LAMBDA i : record[i + 1] = SLASH)

\* s.split('/'): the text before, between and after the separators
split(s) ==
    LET m == markers_of(s)
    IN [k \in 1..(Len(m) + 1) |->
           SubSeq(s, IF k = 1 THEN 1 ELSE m[k - 1] + 2,
                     IF k > Len(m) THEN Len(s) ELSE m[k])]

\* '/'.join(comps)
joinslash(comps) ==
    LET RECURSIVE F(_)
        F(i) == IF i > Len(comps) THEN <<>>
                ELSE IF i = 1 THEN comps[1] \o F(2)
                ELSE <<SLASH>> \o comps[i] \o F(i + 1)
    IN F(1)

\* os.path.join(a, b)
join(a, b) ==
    IF startswith(b, <<SLASH>>) THEN b
    ELSE IF a = <<>> \/ endswith(a, <<SLASH>>) THEN a \o b
    ELSE a \o <<SLASH>> \o b

\* os.path.normpath(path)
normpath(path) ==
    IF path = <<>> THEN <<".">>
    ELSE
    LET initial_slashes ==
            IF ~startswith(path, <<SLASH>>) THEN 0
            ELSE IF startswith(path, <<SLASH, SLASH>>)
                    /\ ~startswith(path, <<SLASH, SLASH, SLASH>>) THEN 2
            ELSE 1
        comps == split(path)
        RECURSIVE F(_, _)
        F(i, new_comps) ==
            IF i > Len(comps) THEN new_comps
            ELSE LET comp == comps[i] IN
                 IF comp = <<>> \/ comp = <<".">> THEN F(i + 1, new_comps)
                 ELSE IF comp # <<".", ".">>
                         \/ (initial_slashes = 0 /\ new_comps = <<>>)
                         \/ (new_comps # <<>> /\ new_comps[Len(new_comps)] = <<".", ".">>)
                      THEN F(i + 1, Append(new_comps, comp))
                 ELSE IF new_comps # <<>>
                      THEN F(i + 1, SubSeq(new_comps, 1, Len(new_comps) - 1))
                 ELSE F(i + 1, new_comps)
        body == joinslash(F(1, <<>>))
        out == [k \in 1..initial_slashes |-> SLASH] \o body
    IN IF out = <<>> THEN <<".">> ELSE out

\* os.path.basename(p)
basename(p) ==
    LET m == markers_of(p)
    IN IF m = <<>> THEN p ELSE SubSeq(p, m[Len(m)] + 2, Len(p))

----------------------------------------------------------------------------
(* Backup._determine_local_path *)

\* the length check dropped: a short locator is stored in the root itself
determine_local_path_lenient(dest, record) ==
    LET markers == markers_of(record)
        markers_len == Len(markers)
    IN IF markers_len < 3
       THEN [err |-> "none", local_path |-> normpath(dest), filename |-> basename(record)]
       ELSE LET begin == markers[markers_len - 2] + 1
                end == markers[markers_len]
            IN [err |-> "none",
                local_path |-> normpath(join(dest, slice(record, begin, end))),
                filename |-> basename(record)]

\* begin left on the separator itself
determine_local_path_skew(dest, record) ==
    LET markers == markers_of(record)
        markers_len == Len(markers)
    IN IF markers_len < 3 THEN [err |-> "ValueError"]
       ELSE LET begin == markers[markers_len - 2]
                end == markers[markers_len]
            IN [err |-> "none",
                local_path |-> normpath(join(dest, slice(record, begin, end))),
                filename |-> basename(record)]

\* lines 128-146
determine_local_path(dest, record) ==
    LET markers == markers_of(record)
        markers_len == Len(markers)
    IN IF markers_len < 3 THEN [err |-> "ValueError"]
       ELSE LET begin == markers[markers_len - 2] + 1
                end == markers[markers_len]
            IN [err |-> "none",
                local_path |-> normpath(join(dest, slice(record, begin, end))),
                filename |-> basename(record)]

----------------------------------------------------------------------------
(* Backup.__init__ *)

NewStats ==
    [read |-> 0, written |-> 0, success |-> 0, skipped |-> 0,
     fatal |-> <<>>, fail |-> <<>>]

NoCall == [url |-> None, dirpath |-> None, fullpath |-> None, outcome |-> "none"]

\* the engine before any Backup is constructed
EngineIdle ==
    /\ info = <<>>
    /\ dest_arg = <<>>
    /\ data = <<>>
    /\ destination = None
    /\ verbose = "unset"
    /\ idx = 0
    /\ stats = NewStats
    /\ dirs = {}
    /\ files = <<>>
    /\ opened = <<>>
    /\ last = NoCall
    /\ runno = "first"
    /\ stats1 = None
    /\ files1 = None
    /\ files0 = <<>>

----------------------------------------------------------------------------
(* The resolver as a pure function: Backup(data, root)._determine_local_path *)

ExampleLocator ==
    <<"h","t","t","p",":","/","/","x","/","y","/","z","/","w","/","p","k","g",".","t","a","r">>

ExampleRoot == <<"/","r","o","o","t">>

ResolveChars == {SLASH, "a", "."}

ResolveLocators ==
    UNION {[1..n -> ResolveChars] : n \in 0..MaxLocLen} \cup {ExampleLocator}

ResolveRoots ==
    {ExampleRoot, <<"r">>, <<".">>, <<>>, <<"r", SLASH>>, <<SLASH, SLASH, "r">>,
     <<".", ".">>, <<SLASH>>, <<"r", SLASH, ".", ".">>}

ResolveInit ==
    /\ pc = "resolve"
    /\ arg \in [record : ResolveLocators, root : ResolveRoots]
    /\ res = None
    /\ EngineIdle

\* Backup(data, arg.root)._determine_local_path(arg.record)
Resolve ==
    /\ pc = "resolve"
    /\ res' = determine_local_path(normpath(arg.root), arg.record)
    /\ pc' = "resolved"
    /\ UNCHANGED <<arg, engineVars>>

ResolveNext == Resolve

SpecResolve == ResolveInit /\ [][ResolveNext]_vars

\* number of '/' characters of s
CountSlash(s) == Cardinality({i \in 1..Len(s) : s[i] = SLASH})

\* C6: for a locator with at least 3 '/', the resolver returns the text after
\* the last '/' as filename, and as directory the normalised join of the
\* destination root with the two segments before the filename (the locator
\* text between the 3rd-from-last '/' and the last '/'); with fewer it fails.
\* http://x/y/z/w/pkg.tar under /root gives /root/z/w and pkg.tar.
C6_PathResolution ==
    pc = "resolved" =>
        LET record == arg.record
            segs == split(record)
            k == Len(segs)
        IN /\ CountSlash(record) >= 3 =>
                /\ res.err = "none"
                /\ res.filename = segs[k]
                /\ record = joinslash(SubSeq(segs, 1, k - 1)) \o <<SLASH>> \o res.filename
                /\ CountSlash(res.filename) = 0
                /\ res.local_path =
                       normpath(join(arg.root, segs[k - 2] \o <<SLASH>> \o segs[k - 1]))
           /\ CountSlash(record) < 3 => res.err = "ValueError"
           /\ (record = ExampleLocator /\ arg.root = ExampleRoot) =>
                /\ res.local_path = <<"/","r","o","o","t","/","z","/","w">>
                /\ res.filename = <<"p","k","g",".","t","a","r">>

C6_Witness ==
    /\ pc = "resolved"
    /\ arg.record = ExampleLocator
    /\ arg.root = ExampleRoot
    /\ res.err = "none"
    /\ res.local_path = <<"/","r","o","o","t","/","z","/","w">>

----------------------------------------------------------------------------
(* The locators and destinations the engine is run on *)

U1 == ExampleLocator

\* another locator with the target path of U1
U2 == <<"h","t","t","p",":","/","/","x","/","q","/","z","/","w","/","p","k","g",".","t","a","r">>

\* a locator with one '/'
U3 == <<"x","/","p","k","g",".","t","a","r">>

E1 == <<"h","t","t","p",":","/","/","a",".","t","e","s","t","/","c","h","/","b","/","c","/","p","k","g","1","-","1",".","0",".","t","a","r">>

E2 == <<"h","t","t","p",":","/","/","a",".","t","e","s","t","/","c","h","/","b","/","c","/","p","k","g","2","-","1",".","0",".","t","a","r">>

ExampleLines == <<E1, E1, E2>>

RelRoot == <<"m","i","r","r","o","r">>

Roots == {ExampleRoot, RelRoot}

Locators == {U1, U2, U3}

----------------------------------------------------------------------------
(* The file system and the remote side, as _download uses them *)

BlockSize == 65535

\* lines 97-98: dirpath and fullpath, from what _determine_local_path gave
stored_at(dest, r) ==
    IF r.err # "none" THEN [err |-> r.err]
    ELSE [err |-> "none", dirpath |-> join(dest, r.local_path),
          fullpath |-> join(join(dest, r.local_path), r.filename)]

\* lines 96-98: the directory and the file a locator is stored at
target_of(dest, url) == stored_at(dest, determine_local_path(dest, url))

\* the file the system resolves a path to: without symbolic links, the
\* normalised path
name_of(p) == [path |-> p, key |-> normpath(p)]

\* a target, with the files its paths name
named_target(t) ==
    IF t.err # "none" THEN t
    ELSE [err |-> "none", dirpath |-> name_of(t.dirpath),
          fullpath |-> name_of(t.fullpath)]

resolve_target(dest, url) == named_target(target_of(dest, url))

\* resolve_target, computed once for every destination and locator
Targets ==
    [d \in {normpath(r) : r \in Roots}, u \in Locators \cup {E1, E2}
        |-> resolve_target(d, u)]

\* the named directory and every ancestor directory of it
path_prefixes(n) ==
    LET comps == split(n.key)
    IN {joinslash(SubSeq(comps, 1, i)) : i \in 1..Len(comps)} \ {<<>>}

ImplicitDirs == {<<SLASH>>, <<".">>, <<".", ".">>, <<SLASH, SLASH>>}

isdir(D, n) == n.key \in D \cup ImplicitDirs

isfile(F, n) == ~endswith(n.path, <<SLASH>>) /\ n.key \in DOMAIN F

\* os.path.isdir in the place of os.path.exists
exists_dir_only(D, F, n) == isdir(D, n)

\* os.path.exists of the path named n
exists(D, F, n) == isdir(D, n) \/ isfile(F, n)

\* os.makedirs(p) cannot succeed: a regular file is in the way
makedirs_blocked(F, n) == \E q \in path_prefixes(n) : q \in DOMAIN F

\* the directories after a successful os.makedirs(p)
makedirs(D, n) == D \cup (path_prefixes(n) \ ImplicitDirs)

\* open(p, 'w+b') cannot succeed: p names a directory, or its parent is none
open_blocked(D, F, dirpath, fullpath) ==
    \/ endswith(fullpath.path, <<SLASH>>)
    \/ isdir(D, fullpath)
    \/ ~isdir(D, dirpath)

\* number of data.read(block_size) calls that drain n bytes
reads_of(n) == (n + BlockSize - 1) \div BlockSize + 1

\* the chunk loop of _download over a remote body of n bytes, whose read
\* call number failread (0: none) raises: bytes counted as read, as written
transfer(n, failread) ==
    LET RECURSIVE F(_, _, _)
        \* k: the read call about to be made; rd, wr: the counters so far
        F(k, rd, wr) ==
            IF k = failread THEN [read |-> rd, written |-> wr, err |-> "OSError"]
            ELSE LET chunk == IF n - rd >= BlockSize THEN BlockSize ELSE n - rd
                 IN IF chunk = 0 THEN [read |-> rd, written |-> wr, err |-> "none"]
                    ELSE F(k + 1, rd + chunk, wr + chunk)
    IN F(1, 0, 0)

----------------------------------------------------------------------------
(* Backup._download *)

\* the HTTPError handler without its return
classify_no_return(st, url, err) ==
    IF err = "HTTPError"
    THEN [st EXCEPT !.fail = Append(@, <<url, err>>), !.success = @ + 1]
    ELSE IF err # "none"
    THEN [st EXCEPT !.fatal = Append(@, <<url, err>>), !.success = @ + 1]
    ELSE [st EXCEPT !.success = @ + 1]

\* lines 120-126: the statistics after the try block ended with err
classify(st, url, err) ==
    IF err = "HTTPError"
    THEN [st EXCEPT !.fail = Append(@, <<url, err>>)]
    ELSE IF err # "none"
    THEN [st EXCEPT !.fatal = Append(@, <<url, err>>), !.success = @ + 1]
    ELSE [st EXCEPT !.success = @ + 1]

\* the file test inverted
skips_inverted(D, F, t) == exists(D, F, t.dirpath) /\ ~exists(D, F, t.fullpath)

\* lines 101-105: whether the locator is skipped
skips(D, F, t) == exists(D, F, t.dirpath) /\ exists(D, F, t.fullpath)

\* what the environment does to one fetch: the result of urlopen, of
\* open(fullpath), the size of the remote body and the read call that fails
Sizes == {0, BlockSize + 1}

Environments ==
    {e \in [urlopen : {"none", "HTTPError", "URLError"}, open : {"none", "OSError"},
            size : Sizes, failread : 0..3] :
        /\ e.urlopen # "none" => (e.open = "none" /\ e.size = 0 /\ e.failread = 0)
        /\ e.open # "none" => (e.size = 0 /\ e.failread = 0)
        /\ e.failread <= reads_of(e.size)}

\* line 109, open(fullpath, 'w+b'): the file is created, or truncated
created(F, fp, url) ==
    [q \in DOMAIN F \cup {fp} |-> IF q = fp THEN [src |-> url, size |-> 0] ELSE F[q]]

\* lines 113-119: the chunk loop ended as x tells; the file holds what was written
copied(F, fp, x) ==
    [err |-> x.err, read |-> x.read, written |-> x.written,
     files |-> [F EXCEPT ![fp].size = x.written]]

\* lines 107-119: the try block under environment e; the error it ends with,
\* the bytes read and written, and the file it leaves
fetch(D, F, vb, t, url, e) ==
    IF e.urlopen # "none"
    THEN [err |-> e.urlopen, read |-> 0, written |-> 0, files |-> F]
    ELSE IF e.open # "none" \/ open_blocked(D, F, t.dirpath, t.fullpath)
    THEN [err |-> "OSError", read |-> 0, written |-> 0, files |-> F]
    ELSE IF vb = "unset"
    THEN [err |-> "AttributeError", read |-> 0, written |-> 0,
          files |-> created(F, t.fullpath.key, url)]
    ELSE copied(created(F, t.fullpath.key, url), t.fullpath.key,
                transfer(e.size, e.failread))

CurrentUrl == data[idx + 1]

Running == pc = "run" /\ idx < Len(data)

\* the locator has fewer than 3 '/': ValueError leaves _download and run
DownloadMalformed ==
    /\ Running
    /\ Targets[destination, CurrentUrl].err # "none"
    /\ pc' = "raised"
    /\ idx' = idx + 1
    /\ last' = [url |-> CurrentUrl, dirpath |-> None, fullpath |-> None,
                outcome |-> "ValueError"]
    /\ UNCHANGED <<info, dest_arg, data, destination, verbose, stats, dirs, files,
                   opened, runno, stats1, files1, files0, arg, res>>

\* os.makedirs raises (a file is in the way, or the system refuses): the
\* error leaves _download and run
DownloadMakedirsRaises ==
    /\ Running
    /\ \E t \in {Targets[destination, CurrentUrl]} :
          /\ t.err = "none"
          /\ ~exists(dirs, files, t.dirpath)
          /\ last' = [url |-> CurrentUrl, dirpath |-> t.dirpath.path,
                      fullpath |-> t.fullpath.path, outcome |-> "makedirs OSError"]
    /\ pc' = "raised"
    /\ idx' = idx + 1
    /\ UNCHANGED <<info, dest_arg, data, destination, verbose, stats, dirs, files,
                   opened, runno, stats1, files1, files0, arg, res>>

\* directory and file exist: the locator is skipped
DownloadSkip ==
    /\ Running
    /\ \E t \in {Targets[destination, CurrentUrl]} :
          /\ t.err = "none"
          /\ skips(dirs, files, t)
          /\ last' = [url |-> CurrentUrl, dirpath |-> t.dirpath.path,
                      fullpath |-> t.fullpath.path, outcome |-> "skipped"]
    /\ stats' = [stats EXCEPT !.skipped = @ + 1]
    /\ idx' = idx + 1
    /\ UNCHANGED <<pc, info, dest_arg, data, destination, verbose, dirs, files,
                   opened, runno, stats1, files1, files0, arg, res>>

\* the directory is made if need be and the remote resource is fetched
DownloadFetch ==
    /\ Running
    /\ \E t \in {Targets[destination, CurrentUrl]} :
          /\ t.err = "none"
          /\ ~skips(dirs, files, t)
          /\ ~exists(dirs, files, t.dirpath) => ~makedirs_blocked(files, t.dirpath)
          /\ dirs' = IF exists(dirs, files, t.dirpath) THEN dirs
                     ELSE makedirs(dirs, t.dirpath)
          /\ \E e \in Environments :
                \E f \in {fetch(dirs', files, verbose, t, CurrentUrl, e)} :
                   /\ files' = f.files
                   /\ opened' = Append(opened, CurrentUrl)
                   /\ stats' = classify([stats EXCEPT !.read = @ + f.read,
                                                      !.written = @ + f.written],
                                        CurrentUrl, f.err)
                   /\ last' = [url |-> CurrentUrl, dirpath |-> t.dirpath.path,
                               fullpath |-> t.fullpath.path,
                               outcome |-> IF f.err = "none" THEN "success" ELSE f.err]
    /\ idx' = idx + 1
    /\ UNCHANGED <<pc, info, dest_arg, data, destination, verbose, runno, stats1,
                   files1, files0, arg, res>>

----------------------------------------------------------------------------
(* Backup.run, its callers *)

\* code points of the characters the locators are written with
Ord ==
        ("-" :> 45) @@ ("." :> 46) @@ ("/" :> 47) @@ ("0" :> 48) @@ ("1" :>
        49) @@ ("2" :> 50) @@ (":" :> 58) @@ ("a" :> 97) @@ ("b" :> 98) @@
        ("c" :> 99) @@ ("e" :> 101) @@ ("g" :> 103) @@ ("h" :> 104) @@ ("k" :>
        107) @@ ("o" :> 111) @@ ("p" :> 112) @@ ("q" :> 113) @@ ("r" :> 114)
        @@ ("s" :> 115) @@ ("t" :> 116) @@ ("w" :> 119) @@ ("x" :> 120) @@
        ("y" :> 121) @@ ("z" :> 122)

\* a < b as Python compares str
str_less(a, b) ==
    LET RECURSIVE F(_)
        F(i) == IF i > Len(a) THEN i <= Len(b)
                ELSE IF i > Len(b) THEN FALSE
                ELSE IF a[i] = b[i] THEN F(i + 1)
                ELSE Ord[a[i]] < Ord[b[i]]
    IN F(1)

\* sorted(lines), the duplicates kept
sorted_keep_duplicates(lines) ==
    LET RECURSIVE F(_)
        F(ls) == IF ls = <<>> THEN <<>>
                 ELSE LET k == CHOOSE i \in 1..Len(ls) :
                                  \A j \in 1..Len(ls) : ~str_less(ls[j], ls[i])
                      IN <<ls[k]>> \o F(SubSeq(ls, 1, k - 1) \o SubSeq(ls, k + 1, Len(ls)))
    IN F(lines)

\* sorted(set(lines))
sorted_set(lines) ==
    LET RECURSIVE F(_)
        F(S) == IF S = {} THEN <<>>
                ELSE LET m == CHOOSE x \in S : \A y \in S \ {x} : str_less(x, y)
                     IN <<m>> \o F(S \ {m})
    IN F({lines[i] : i \in 1..Len(lines)})

\* __main__, lines 198-209: the gathered lines are deduplicated and sorted,
\* the destination is made, the Backup is constructed and made verbose
Main ==
    /\ pc = "main"
    /\ info # <<>>
    /\ ~makedirs_blocked(files, name_of(dest_arg))
    /\ data' = sorted_set(info)
    /\ dirs' = IF exists(dirs, files, name_of(dest_arg)) THEN dirs
               ELSE makedirs(dirs, name_of(dest_arg))
    /\ destination' = normpath(dest_arg)
    /\ stats' = NewStats
    /\ verbose' = "True"
    /\ pc' = "run"
    /\ UNCHANGED <<info, dest_arg, idx, files, opened, last, runno, stats1, files1,
                   files0, arg, res>>

\* Backup(info, dest_arg) constructed by another caller, which leaves
\* verbose alone or keeps the run quiet
Construct ==
    /\ pc = "caller"
    /\ data' = info
    /\ destination' = normpath(dest_arg)
    /\ stats' = NewStats
    /\ verbose' \in {"unset", "False"}
    /\ pc' = "run"
    /\ UNCHANGED <<info, dest_arg, idx, dirs, files, opened, last, runno,
                   stats1, files1, files0, arg, res>>

\* run: the loop is over, run returns
RunReturns ==
    /\ pc = "run"
    /\ idx = Len(data)
    /\ pc' = "done"
    /\ stats1' = IF runno = "first" THEN stats ELSE stats1
    /\ files1' = IF runno = "first" THEN files ELSE files1
    /\ UNCHANGED <<info, dest_arg, data, destination, verbose, idx, stats, dirs,
                   files, opened, last, runno, files0, arg, res>>

\* a second Backup over the same list and destination, with fresh statistics
SecondRun ==
    /\ pc = "done"
    /\ runno = "first"
    /\ runno' = "second"
    /\ stats' = NewStats
    /\ idx' = 0
    /\ opened' = <<>>
    /\ last' = NoCall
    /\ pc' = "run"
    /\ UNCHANGED <<info, dest_arg, data, destination, verbose, dirs, files, stats1,
                   files1, files0, arg, res>>

----------------------------------------------------------------------------
(* The mirroring engine *)

MaxData == 2        \* longest locator list given to the engine

\* the lists a caller constructs a Backup with
LocatorLists == UNION {[1..n -> Locators] : n \in 0..MaxData}

\* the lines __main__ has gathered from the spec files
GatheredLines == LocatorLists \cup {ExampleLines}

OldContent == [src |-> None, size |-> 7]

\* the destination is empty, or holds the file of U1 from an earlier mirror
EmptyFS == [dirs |-> {}, files |-> <<>>]

mirrored(a, b) ==
    [dirs |-> makedirs(makedirs({}, a.dirpath), b.dirpath),
     files |-> (a.fullpath.key :> OldContent) @@ (b.fullpath.key :> OldContent)]

MirroredFS == mirrored(Targets[ExampleRoot, U1], Targets[RelRoot, U1])

Init ==
    /\ \/ pc = "main" /\ info \in GatheredLines
       \/ pc = "caller" /\ info \in LocatorLists
    /\ dest_arg \in Roots
    /\ \E fs \in {EmptyFS, MirroredFS} : dirs = fs.dirs /\ files = fs.files /\ files0 = fs.files
    /\ data = <<>>
    /\ destination = None
    /\ verbose = "unset"
    /\ idx = 0
    /\ stats = NewStats
    /\ opened = <<>>
    /\ last = NoCall
    /\ runno = "first"
    /\ stats1 = None
    /\ files1 = None
    /\ arg = None
    /\ res = None

Next ==
    \/ Main
    \/ Construct
    \/ DownloadMalformed
    \/ DownloadMakedirsRaises
    \/ DownloadSkip
    \/ DownloadFetch
    \/ RunReturns
    \/ SecondRun

Spec == Init /\ [][Next]_vars

----------------------------------------------------------------------------
(* PipelineSpec.verify, PipelineSpec._read *)

MaxLines == 3       \* most lines of an enumerated spec file

MARKER == <<"@","E","X","P","L","I","C","I","T">>

NL == "\n"

\* the characters str.strip() removes
Whitespace == {" ", "\t", "\n", "\r"}

\* for line in fp: the lines of the text, each with its line end
readlines(text) ==
    LET RECURSIVE F(_, _, _)
        F(i, cur, acc) ==
            IF i > Len(text) THEN (IF cur = <<>> THEN acc ELSE Append(acc, cur))
            ELSE IF text[i] = NL THEN F(i + 1, <<>>, Append(acc, Append(cur, NL)))
            ELSE F(i + 1, Append(cur, text[i]), acc)
    IN F(1, <<>>, <<>>)

\* line.strip()
strip(line) ==
    LET RECURSIVE L(_)
        L(x) == IF x # <<>> /\ Head(x) \in Whitespace THEN L(Tail(x)) ELSE x
        RECURSIVE R(_)
        R(x) == IF x # <<>> /\ x[Len(x)] \in Whitespace
                THEN R(SubSeq(x, 1, Len(x) - 1)) ELSE x
    IN R(L(line))

\* the marker looked for in the stripped lines
verify_stripped(text) ==
    \E i \in 1..Len(readlines(text)) : startswith(strip(readlines(text)[i]), MARKER)

\* PipelineSpec.verify on a file holding text
verify(text) ==
    \E i \in 1..Len(readlines(text)) : startswith(readlines(text)[i], MARKER)

\* PipelineSpec(filename) on a file holding text: __init__ and _read
read(text) ==
    IF ~verify(text) THEN [err |-> "PipelineSpecError", data |-> <<>>]
    ELSE LET lines == readlines(text)
             RECURSIVE F(_, _)
             F(i, acc) ==
                 IF i > Len(lines) THEN acc
                 ELSE LET line == strip(lines[i])
                      IN IF line = <<>> \/ startswith(line, <<"#">>)
                            \/ startswith(line, <<"@">>)
                         THEN F(i + 1, acc)
                         ELSE F(i + 1, Append(acc, line))
         IN [err |-> "none", data |-> F(1, <<>>)]

\* the lines spec files are written from
SpecLines ==
    {<<"@","E","X","P","L","I","C","I","T">>,
     <<" ","@","E","X","P","L","I","C","I","T">>,
     <<"@","E","X","P","L","I","C","I","T"," ","x">>,
     <<"@","E","X","P","L","I","C","I">>,
     <<"#","c">>,
     <<" ","a"," ">>,
     <<"a">>,
     <<>>,
     <<"@","d">>,
     <<"\t","a"," ","#">>,
     <<"a"," ","b">>}

\* the text of the file whose lines are ls, the last one with or without
\* its line end
text_of(ls, closed) ==
    LET RECURSIVE F(_)
        F(i) == IF i > Len(ls) THEN <<>>
                ELSE ls[i] \o (IF i < Len(ls) \/ closed THEN <<NL>> ELSE <<>>) \o F(i + 1)
    IN F(1)

ParseInit ==
    /\ pc = "parse"
    /\ arg \in [lines : UNION {[1..n -> SpecLines] : n \in 0..MaxLines},
                closed : BOOLEAN]
    /\ res = None
    /\ EngineIdle

\* PipelineSpec(filename), the file holding text_of(arg.lines, arg.closed)
Parse ==
    /\ pc = "parse"
    /\ res' = read(text_of(arg.lines, arg.closed))
    /\ pc' = "parsed"
    /\ UNCHANGED <<arg, engineVars>>

ParseNext == Parse

SpecParse == ParseInit /\ [][ParseNext]_vars

\* line without its leading and trailing whitespace
trimmed(line) ==
    IF \A i \in 1..Len(line) : line[i] \in Whitespace THEN <<>>
    ELSE LET b == CHOOSE i \in 1..Len(line) :
                     line[i] \notin Whitespace /\ \A j \in 1..(i - 1) : line[j] \in Whitespace
             e == CHOOSE i \in 1..Len(line) :
                     line[i] \notin Whitespace
                     /\ \A j \in (i + 1)..Len(line) : line[j] \in Whitespace
         IN SubSeq(line, b, e)

is_locator_line(t) == t # <<>> /\ t[1] # "#" /\ t[1] # "@"

\* C9: constructing PipelineSpec fails, with no locators, exactly when no
\* line of the text starts with @EXPLICIT; otherwise data is the trimmed
\* lines that are non-empty and start with neither '#' nor '@', in order,
\* duplicates kept.
C9_SpecParsing ==
    pc = "parsed" =>
        LET marked == \E i \in 1..Len(arg.lines) : startswith(arg.lines[i], MARKER)
            ts == [i \in 1..Len(arg.lines) |-> trimmed(arg.lines[i])]
        IN /\ res.err = "PipelineSpecError" <=> ~marked
           /\ ~marked => res.data = <<>>
           /\ marked => res.err = "none" /\ res.data = SelectSeq(ts, is_locator_line)

\* a marked file with a padded and a plain copy of the same locator
C9_Witness ==
    /\ pc = "parsed"
    /\ arg.lines = <<MARKER, <<" ", "a", " ">>, <<"a">>>>
    /\ res.err = "none"
    /\ res.data = <<<<"a">>, <<"a">>>>

----------------------------------------------------------------------------
(* PipelineSpec.replace *)

MaxRecords == 2     \* most locators of an enumerated PipelineSpec.data

\* s.replace(old, new, 1)
str_replace_first(s, old, new) ==
    LET n == Len(old)
        RECURSIVE F(_)
        F(i) == IF i + n - 1 > Len(s) THEN SubSeq(s, i, Len(s))
                ELSE IF SubSeq(s, i, i + n - 1) = old
                THEN new \o SubSeq(s, i + n, Len(s))
                ELSE <<s[i]>> \o F(i + 1)
    IN IF n = 0 THEN new \o s ELSE F(1)

\* s.replace(old, new)
str_replace(s, old, new) ==
    LET n == Len(old)
        RECURSIVE F(_)
        F(i) == IF i > Len(s) THEN (IF n = 0 THEN new ELSE <<>>)
                ELSE IF n = 0 THEN new \o <<s[i]>> \o F(i + 1)
                ELSE IF i + n - 1 <= Len(s) /\ SubSeq(s, i, i + n - 1) = old
                THEN new \o F(i + n)
                ELSE <<s[i]>> \o F(i + 1)
    IN F(1)

\* lines 25-29: one record of the loop
replace_record(record, old, new) ==
    LET parts == split(record)
        RECURSIVE F(_)
        F(j) == IF j > Len(parts) THEN record
                ELSE IF parts[j] = old THEN str_replace(record, old, new)
                ELSE F(j + 1)
    IN F(1)

\* PipelineSpec.replace(old, new): self.data afterwards
replace(recs, old, new) ==
    [i \in 1..Len(recs) |-> replace_record(recs[i], old, new)]

Records ==
    {<<"x","/","a","/","a">>, <<"a","/","x","a">>, <<"x","a","/","b">>, <<"a","a","/","a">>, <<"x","/","/","a">>}

OldTokens == {<<"a">>, <<"x", "a">>, <<"a", "a">>, <<>>}

NewTokens == {<<"b">>, <<>>, <<"a", "b">>}

ReplaceInit ==
    /\ pc = "replace"
    /\ arg \in [data : UNION {[1..n -> Records] : n \in 0..MaxRecords},
                old : OldTokens, new : NewTokens]
    /\ res = None
    /\ EngineIdle

\* pspec.replace(arg.old, arg.new) on a PipelineSpec whose data is arg.data
Replace ==
    /\ pc = "replace"
    /\ res' = replace(arg.data, arg.old, arg.new)
    /\ pc' = "replaced"
    /\ UNCHANGED <<arg, engineVars>>

ReplaceNext == Replace

SpecReplace == ReplaceInit /\ [][ReplaceNext]_vars

\* old is a complete '/'-delimited segment of record
has_segment(record, old) == \E j \in 1..Len(split(record)) : split(record)[j] = old

\* old occurs in s at position i
occurs_at(s, old, i) == i + Len(old) - 1 <= Len(s) /\ SubSeq(s, i, i + Len(old) - 1) = old

\* s with its first occurrence of old replaced by new
first_replaced(s, old, new) ==
    IF ~\E i \in 1..(Len(s) + 1) : occurs_at(s, old, i) THEN s
    ELSE LET k == CHOOSE i \in 1..(Len(s) + 1) :
                     occurs_at(s, old, i) /\ \A j \in 1..(i - 1) : ~occurs_at(s, old, j)
         IN SubSeq(s, 1, k - 1) \o new \o SubSeq(s, k + Len(old), Len(s))

\* s.split(old) for a non-empty old
split_on(s, old) ==
    LET RECURSIVE F(_, _, _)
        F(i, cur, acc) ==
            IF i > Len(s) THEN Append(acc, cur)
            ELSE IF occurs_at(s, old, i) THEN F(i + Len(old), <<>>, Append(acc, cur))
            ELSE F(i + 1, Append(cur, s[i]), acc)
    IN F(1, <<>>, <<>>)

\* s with every occurrence of old replaced by new: the pieces between the
\* occurrences, joined by new; an empty old occurs before every character
\* and at the end
all_replaced(s, old, new) ==
    LET pieces == IF old = <<>> THEN <<<<>>>> \o [i \in 1..Len(s) |-> <<s[i]>>] \o <<<<>>>>
                  ELSE split_on(s, old)
        RECURSIVE J(_)
        J(i) == IF i = Len(pieces) THEN pieces[i] ELSE pieces[i] \o new \o J(i + 1)
    IN IF old = <<>> /\ s = <<>> THEN new ELSE J(1)

Replaced == pc = "replaced"

----------------------------------------------------------------------------
(* Properties of the mirroring engine *)

\* this step is one _download call, on CurrentUrl
Downloads == Running /\ idx' = idx + 1

CurrentTarget == Targets[destination, CurrentUrl]

\* C1: a locator whose target directory and target file both exist when its
\* _download begins only adds 1 to skipped: urlopen is not called, no file
\* or directory changes, and read, written, success, fail, fatal keep
\* their values; the run goes on.
C1_ExistingNeverOverwritten ==
    [][(/\ Downloads
        /\ CurrentTarget.err = "none"
        /\ exists(dirs, files, CurrentTarget.dirpath)
        /\ exists(dirs, files, CurrentTarget.fullpath))
       => /\ stats' = [stats EXCEPT !.skipped = @ + 1]
          /\ files' = files
          /\ dirs' = dirs
          /\ opened' = opened
          /\ pc' = "run"]_vars

\* U2 is skipped because U1, a different locator, was stored at its path
C1_Witness ==
    /\ last.outcome = "skipped"
    /\ last.url = U2
    /\ normpath(last.fullpath) \in DOMAIN files
    /\ files[normpath(last.fullpath)].src = U1
    /\ opened = <<U1>>

\* the two segments before the filename: the directory derived from a locator
derived_directory(url) ==
    LET segs == split(url)
    IN segs[Len(segs) - 2] \o <<SLASH>> \o segs[Len(segs) - 1]

\* C2: the file _download creates or looks for is
\* destination_root/<directory derived from the locator>/<filename>: the
\* destination root is applied once.
C2_Layout ==
    last.fullpath # None =>
        normpath(last.fullpath) =
            normpath(dest_arg \o <<SLASH>> \o derived_directory(last.url)
                     \o <<SLASH>> \o basename(last.url))

\* C3: a failure of urlopen, of open or of the transfer other than an
\* HTTPError appends (locator, error) to fatal once, leaves success as it
\* was, and the run goes on.
C3_GenericFailure ==
    [][(Downloads /\ last'.outcome \in {"URLError", "OSError", "AttributeError"})
       => /\ stats'.fatal = Append(stats.fatal, <<CurrentUrl, last'.outcome>>)
          /\ stats'.fail = stats.fail
          /\ stats'.success = stats.success
          /\ pc' = "run"]_vars

SecondRunOver == runno = "second" /\ pc = "done"

AllSkipped ==
    /\ stats.skipped = Len(data)
    /\ stats.success = 0
    /\ stats.fail = <<>>
    /\ stats.fatal = <<>>
    /\ files = files1

ExampleRunOver ==
    /\ info = ExampleLines
    /\ verbose = "True"
    /\ files0 = <<>>
    /\ runno = "first"
    /\ pc = "done"
    /\ stats.fail = <<>>
    /\ stats.fatal = <<>>

BC1 == <<"/","b","/","c","/","p","k","g","1","-","1",".","0",".","t","a","r">>

BC2 == <<"/","b","/","c","/","p","k","g","2","-","1",".","0",".","t","a","r">>

under(root, tail) == root \o tail

\* C5 as claimed: the example ends with success = 2, skipped = 0 and two
\* files, <dest>/ch/b/c/pkg1-1.0.tar and <dest>/ch/b/c/pkg2-1.0.tar.
C5_Example ==
    ExampleRunOver =>
        /\ stats.success = 2
        /\ stats.skipped = 0
        /\ DOMAIN files = {under(dest_arg,
                              <<"/","c","h","/","b","/","c","/","p","k","g","1","-","1",".","0",".","t","a","r">>), under(dest_arg,
                              <<"/","c","h","/","b","/","c","/","p","k","g","2","-","1",".","0",".","t","a","r">>)}

\* C5: the example ends with success = 2, skipped = 0 and two files,
\* pkg1-1.0.tar and pkg2-1.0.tar, in b/c (the two segments before the
\* filename): /root/b/c for the destination /root, mirror/mirror/b/c for the
\* relative destination mirror.
C5_ExampleTwoSegments ==
    ExampleRunOver =>
        /\ stats.success = 2
        /\ stats.skipped = 0
        /\ data = <<E1, E2>>
        /\ DOMAIN files =
              IF dest_arg = ExampleRoot
              THEN {under(ExampleRoot, BC1), under(ExampleRoot, BC2)}
              ELSE {under(RelRoot \o <<SLASH>> \o RelRoot, BC1),
                    under(RelRoot \o <<SLASH>> \o RelRoot, BC2)}

C5_Witness ==
    /\ ExampleRunOver
    /\ dest_arg = ExampleRoot
    /\ stats.success = 2
    /\ under(ExampleRoot, BC1) \in DOMAIN files

\* C7: a locator with fewer than 3 '/' makes run raise: nothing is recorded
\* for it, no counter, directory or file changes, urlopen is not called,
\* and nothing is processed after it.
C7_MalformedAborts ==
    [][/\ (Downloads /\ CountSlash(CurrentUrl) < 3)
          => /\ pc' = "raised"
             /\ stats' = stats
             /\ dirs' = dirs
             /\ files' = files
             /\ opened' = opened
       /\ pc # "raised"]_vars

\* U1 was fetched, then U3 ended the run
C7_Witness ==
    /\ pc = "raised"
    /\ last.outcome = "ValueError"
    /\ last.url = U3
    /\ idx = 2
    /\ stats.success = 1
    /\ opened = <<U1>>

\* C8: an HTTPError appends (locator, error) to fail once and leaves
\* success and fatal as they were; the run raises only for a malformed
\* locator or a failed os.makedirs, otherwise every locator is handed to
\* _download in list order and run returns.
C8_ProtocolFailureIsolated ==
    [][/\ (Downloads /\ last'.outcome = "HTTPError")
          => /\ stats'.fail = Append(stats.fail, <<CurrentUrl, "HTTPError">>)
             /\ stats'.success = stats.success
             /\ stats'.fatal = stats.fatal
             /\ pc' = "run"
       /\ Downloads => last'.url = data[idx']
       /\ pc' = "raised" => last'.outcome \in {"ValueError", "makedirs OSError"}
       /\ pc' = "done" => idx' = Len(data)]_vars

\* a run that met an HTTPError on its first locator and still returned
C8_Witness ==
    /\ pc = "done"
    /\ Len(data) = 2
    /\ Len(stats.fail) >= 1
    /\ stats.fail[1] = <<data[1], "HTTPError">>
    /\ stats.success = 1

====
